---- MODULE Spec2Model ----
(***************************************************************************)
(* Model of quest_db/__main__.py: the Requirement tree, the indentation    *)
(* parser (parse_requirements), the cleanup pass                           *)
(* (remove_empty_requirements), the recursive fetch-and-merge              *)
(* (get_quest_requirements_and_merge) and the graph serializer             *)
(* (build_dot_repr).                                                       *)
(*                                                                         *)
(* Requirement objects live in an arena: `nodes` is a sequence of records, *)
(* a node's identity is its index, `parent = 0` is Python's None.  Objects *)
(* that the program drops (a detached EmptyRequirement) stay in the arena, *)
(* unreachable, with the fields they had when they were dropped.           *)
(***************************************************************************)
EXTENDS Integers, Sequences, FiniteSets, TLC

\* ------------------------------------------------------------------ bounds
\* Lines of requirement text in the whole wiki, in the fetch-and-merge inputs.
MaxWikiLines == 3
\* Lines of the requirement text in the parser inputs.
MaxParseLines == 4
\* Leading asterisks of a raw line (the first one is the stripped separator).
MaxStars == 4
\* Nested get_quest_requirements_and_merge calls the interpreter allows
\* before it raises RecursionError.
MaxDepth == 4
\* Nodes of the trees handed to the cleanup and the serializer on their own.
MaxTreeNodes == 4

\* --------------------------------------------------------------- the inputs
\* Titles of the quest database (QuestDatabase._quest_dict keys).
Quests == {"A", "B", "D"}
\* sorted() order of the titles.
QuestOrder == <<"A", "B", "D">>
\* The quest named on the command line (args.quests[0]).
TopQuest == "A"
\* A link target that is no quest title.
OtherTarget == "Other"

None == 0

VARIABLES
    db,              \* quest title -> what the wiki returns for "<title>/Quick guide"
    nodes,           \* the arena of Requirement objects
    fetched_quests,  \* the visited-set
    stack,           \* active get_quest_requirements_and_merge/parse_requirements calls
    status,          \* "running", "done", the name of the exception raised, or a tree phase
    result,          \* the node get_quest_requirements_and_merge returned at top level
    dot,             \* what build_dot_repr returned
    fetchCount       \* history: calls of get_quest_requirements_and_merge per title

vars == <<db, nodes, fetched_quests, stack, status, result, dot, fetchCount>>

\* ------------------------------------------------------- Requirement nodes
Node(kind, name, level) ==
    [kind |-> kind, name |-> name, level |-> level, parent |-> None, deps |-> <<>>]

EmptyRequirement == Node("Empty", "", -1)
UnknownRequirement(text) == Node("Unknown", text, -1)
QuestRequirement(name) == Node("Quest", name, -1)
SkillRequirement(name, level) == Node("Skill", name, level)

\* An add_dependency that forgets the back-reference (mutation).
AddDependencyNoParent(store, p, d) ==
    [store EXCEPT ![p].deps = Append(@, d)]

\* Requirement.add_dependency
add_dependency(store, p, d) ==
    [store EXCEPT ![p].deps = Append(@, d), ![d].parent = p]

\* list.remove: drops the first occurrence of x.
RECURSIVE ListRemove(_, _)
ListRemove(s, x) ==
    IF s = <<>> THEN <<>>
    ELSE IF Head(s) = x THEN Tail(s)
    ELSE <<Head(s)>> \o ListRemove(Tail(s), x)

\* The inner loop of remove_empty_requirements over the children of an
\* EmptyRequirement `dependency`: each child is handed to dependency.parent.
RECURSIVE Reparent(_, _, _)
Reparent(store, dependency, ds) ==
    IF ds = <<>> THEN store
    ELSE LET dep == Head(ds)
             s1 == [store EXCEPT ![dep].parent = store[dependency].parent]
             s2 == add_dependency(s1, s1[dep].parent, dep)
         IN Reparent(s2, dependency, Tail(ds))

\* One dequeue of the cleanup's work queue.
RemoveStep(store, dependency) ==
    IF store[dependency].kind = "Empty"
    THEN LET s1 == Reparent(store, dependency, store[dependency].deps)
             p == s1[dependency].parent
         IN [s1 EXCEPT ![p].deps = ListRemove(@, dependency),
                       ![dependency].parent = None]
    ELSE store

\* A cleanup that re-parents the children of an empty node but does not visit
\* them (mutation).
RECURSIVE RemoveLoopShallow(_, _)
RemoveLoopShallow(store, queue) ==
    IF queue = <<>> THEN store
    ELSE LET dependency == Head(queue)
             more == IF store[dependency].kind = "Empty" THEN <<>>
                     ELSE store[dependency].deps
         IN RemoveLoopShallow(RemoveStep(store, dependency), Tail(queue) \o more)

\* A cleanup that hands the children of an empty node to its parent but
\* leaves the empty node where it is (mutation).
RECURSIVE RemoveLoopKeep(_, _)
RemoveLoopKeep(store, queue) ==
    IF queue = <<>> THEN store
    ELSE LET dependency == Head(queue)
             s1 == IF store[dependency].kind = "Empty"
                   THEN Reparent(store, dependency, store[dependency].deps)
                   ELSE store
         IN RemoveLoopKeep(s1, Tail(queue) \o store[dependency].deps)

\* The while loop of remove_empty_requirements.
RECURSIVE RemoveLoop(_, _)
RemoveLoop(store, queue) ==
    IF queue = <<>> THEN store
    ELSE LET dependency == Head(queue)
         IN RemoveLoop(RemoveStep(store, dependency),
                       Tail(queue) \o store[dependency].deps)

remove_empty_requirements(store, requirements) ==
    IF store[requirements].deps = <<>> THEN store
    ELSE RemoveLoop(store, store[requirements].deps)

\* The while loop of find_quest.
RECURSIVE FindLoop(_, _, _)
FindLoop(store, queue, quest_name) ==
    IF queue = <<>> THEN None
    ELSE LET dependency == Head(queue)
         IN IF store[dependency].kind = "Quest" /\ store[dependency].name = quest_name
            THEN dependency
            ELSE FindLoop(store, Tail(queue) \o store[dependency].deps, quest_name)

find_quest(store, requirements, quest_name) ==
    IF store[requirements].deps = <<>> /\ store[requirements].name # quest_name
    THEN None
    ELSE FindLoop(store, store[requirements].deps, quest_name)

\* --------------------------------------------------------------- wikitext
\* A raw line of a requirement text: `stars` leading asterisks, then content.
\*   Text              no "{{" and no "[["
\*   SkillTemplate     "{{Skill clickpic|<name>|<level>}}"
\*   SkillTemplateBad  starts with "{{", holds "Skill clickpic", too few or
\*                     non-numeric arguments
\*   SkillInline       "<level> [[File:..]] {{Skill clickpic|<name>}}"-like text
\*                     the inline branch can read
\*   SkillInlineBad    holds "Skill clickpic", the inline branch cannot read it
\*   Links             the "[[target]]" links of `links`, in order; `text` is
\*                     the line without its brackets
Line(stars, kind, links, name, level, text) ==
    [stars |-> stars, kind |-> kind, links |-> links, name |-> name,
     level |-> level, text |-> text]

TextLine(stars) == Line(stars, "Text", <<>>, "", -1, "text")
SkillLine(stars, kind) == Line(stars, kind, <<>>, "Attack", 40, "")
LinkLine(stars, links, text) == Line(stars, "Links", links, "", -1, text)

\* part = part[1:]; current_level = full_len - len(part.lstrip("*"))
CurrentLevel(line) == line.stars - 1

\* QuestDatabase.quest_exists
quest_exists(title) == title \in Quests

\* sorted(quests_to_fetch)
Sorted(S) == SelectSeq(QuestOrder, LAMBDA q : q \in S)

\* ------------------------------------------------------ parse_requirements
\* The ascent loop: while current_level < last_level.
\* An ascent without the anchor test (mutation).
RECURSIVE AscendPastAnchor(_, _, _, _, _)
AscendPastAnchor(store, root_requirement, requirement, last_level, current_level) ==
    IF current_level >= last_level
    THEN [err |-> "", requirement |-> requirement, last_level |-> last_level]
    ELSE IF requirement = None
    THEN [err |-> "AttributeError", requirement |-> requirement, last_level |-> last_level]
    ELSE IF store[requirement].parent = None
    THEN [err |-> "NoRemainingParentsError", requirement |-> requirement,
          last_level |-> last_level]
    ELSE AscendPastAnchor(store, root_requirement, store[requirement].parent,
                          last_level - 1, current_level)

RECURSIVE Ascend(_, _, _, _, _)
Ascend(store, root_requirement, requirement, last_level, current_level) ==
    IF current_level >= last_level
    THEN [err |-> "", requirement |-> requirement, last_level |-> last_level]
    ELSE IF requirement = root_requirement
    THEN [err |-> "NoRemainingParentsError", requirement |-> requirement,
          last_level |-> last_level]
    ELSE IF requirement = None
    THEN [err |-> "AttributeError", requirement |-> requirement, last_level |-> last_level]
    ELSE IF store[requirement].parent = None
    THEN [err |-> "NoRemainingParentsError", requirement |-> requirement,
          last_level |-> last_level]
    ELSE Ascend(store, root_requirement, store[requirement].parent,
                last_level - 1, current_level)

\* A level test that lets a jump of two through (mutation).
LevelStepLax(store, f, current_level) ==
    IF current_level > f.last_level
    THEN IF current_level - f.last_level > 2
         THEN [err |-> "TooManyAddedLevelsError", requirement |-> f.requirement,
               last_level |-> f.last_level]
         ELSE [err |-> "", requirement |-> f.last_req, last_level |-> current_level]
    ELSE Ascend(store, f.root_requirement, f.requirement, f.last_level, current_level)

\* Lines 298-310: where the line goes.
LevelStep(store, f, current_level) ==
    IF current_level > f.last_level
    THEN IF current_level - f.last_level > 1
         THEN [err |-> "TooManyAddedLevelsError", requirement |-> f.requirement,
               last_level |-> f.last_level]
         ELSE [err |-> "", requirement |-> f.last_req, last_level |-> current_level]
    ELSE Ascend(store, f.root_requirement, f.requirement, f.last_level, current_level)

\* What one line adds: the arena, last_req, quests_to_fetch, the new nodes.
Added(err, store, last_req, to_fetch, new) ==
    [err |-> err, store |-> store, last_req |-> last_req, to_fetch |-> to_fetch,
     new |-> new]

\* last_req = <node>; requirement.add_dependency(last_req)
AttachNew(store, requirement, node, to_fetch, new) ==
    IF requirement = None
    THEN Added("AttributeError", store, None, to_fetch, new)
    ELSE LET id == Len(store) + 1
         IN Added("", add_dependency(Append(store, node), requirement, id), id,
                  to_fetch, Append(new, id))

\* A loop over the matches that schedules no quest (mutation).
RECURSIVE MatchLoopUnscheduled(_, _, _, _, _, _, _)
MatchLoopUnscheduled(store, requirement, matches, fetched, last_req, to_fetch, new) ==
    IF matches = <<>> THEN Added("", store, last_req, to_fetch, new)
    ELSE LET match == Head(matches)
         IN IF quest_exists(match)
            THEN LET a == AttachNew(store, requirement, QuestRequirement(match),
                                    to_fetch, new)
                 IN IF a.err # "" THEN a
                    ELSE MatchLoopUnscheduled(a.store, requirement, Tail(matches),
                                              fetched, a.last_req, a.to_fetch, a.new)
            ELSE MatchLoopUnscheduled(store, requirement, Tail(matches), fetched,
                                      last_req, to_fetch, new)

\* for match in matches (lines 338-344)
RECURSIVE MatchLoop(_, _, _, _, _, _, _)
MatchLoop(store, requirement, matches, fetched, last_req, to_fetch, new) ==
    IF matches = <<>> THEN Added("", store, last_req, to_fetch, new)
    ELSE LET match == Head(matches)
         IN IF quest_exists(match)
            THEN LET tf == IF match \notin fetched THEN to_fetch \cup {match}
                           ELSE to_fetch
                     a == AttachNew(store, requirement, QuestRequirement(match), tf, new)
                 IN IF a.err # "" THEN a
                    ELSE MatchLoop(a.store, requirement, Tail(matches), fetched,
                                   a.last_req, a.to_fetch, a.new)
            ELSE MatchLoop(store, requirement, Tail(matches), fetched, last_req,
                           to_fetch, new)

\* Lines 312-350: what the line's content becomes.  "skip" is the soft
\* failure: the line is logged and contributes nothing.
Classify(store, requirement, line, fetched, last_req, to_fetch) ==
    CASE line.kind = "Text" ->
           AttachNew(store, requirement, EmptyRequirement, to_fetch, <<>>)
      [] line.kind \in {"SkillTemplate", "SkillInline"} ->
           AttachNew(store, requirement, SkillRequirement(line.name, line.level),
                     to_fetch, <<>>)
      [] line.kind = "SkillTemplateBad" ->
           Added("ValueError", store, last_req, to_fetch, <<>>)
      [] line.kind = "SkillInlineBad" ->
           Added("", store, last_req, to_fetch, <<>>)
      [] OTHER ->
           LET m == MatchLoop(store, requirement, line.links, fetched, last_req,
                              to_fetch, <<>>)
           IN IF m.err # "" \/ m.new # <<>> THEN m
              ELSE AttachNew(store, requirement, UnknownRequirement(line.text),
                             to_fetch, <<>>)

\* ----------------------------------------------------------- build_dot_repr
\* dot_repr: the quoted label.  `level` is -1 where the label has no level.
Label(level, text) == [level |-> level, text |-> text]
NoLabel == Label(-1, "")

dot_repr(node) ==
    IF node.kind = "Skill" THEN Label(node.level, node.name)
    ELSE Label(-1, node.name)

\* A line of the output: "digraph {", a node[...] style line, "  <label>;",
\* "  <from> -> <to>;", "}" or the bare label of a childless root.
DotLine(t, from, to) == [t |-> t, from |-> from, to |-> to]

Dot(err, lines) == [err |-> err, lines |-> lines]
NoDot == Dot("", <<>>)

DotAcc(err, quests, skills, paths) ==
    [err |-> err, quests |-> quests, skills |-> skills, paths |-> paths]

\* A walk that takes the newest node first (mutation: a stack for the queue).
RECURSIVE DotLoopDepthFirst(_, _, _)
DotLoopDepthFirst(store, queue, acc) ==
    IF queue = <<>> THEN acc
    ELSE LET dependency == Head(queue)
             node == store[dependency]
         IN IF node.kind = "Empty" \/ store[node.parent].kind = "Empty"
            THEN DotAcc("AttributeError", acc.quests, acc.skills, acc.paths)
            ELSE DotLoopDepthFirst(store, node.deps \o Tail(queue),
                   DotAcc("",
                          IF node.kind = "Quest"
                          THEN Append(acc.quests, DotLine("node", dot_repr(node), NoLabel))
                          ELSE acc.quests,
                          IF node.kind = "Skill"
                          THEN Append(acc.skills, DotLine("node", dot_repr(node), NoLabel))
                          ELSE acc.skills,
                          Append(acc.paths,
                                 DotLine("edge", dot_repr(node),
                                         dot_repr(store[node.parent])))))

\* The while loop of build_dot_repr.  An EmptyRequirement has no dot_repr.
RECURSIVE DotLoop(_, _, _)
DotLoop(store, queue, acc) ==
    IF queue = <<>> THEN acc
    ELSE LET dependency == Head(queue)
             node == store[dependency]
         IN IF node.kind = "Empty" \/ store[node.parent].kind = "Empty"
            THEN DotAcc("AttributeError", acc.quests, acc.skills, acc.paths)
            ELSE DotLoop(store, Tail(queue) \o node.deps,
                   DotAcc("",
                          IF node.kind = "Quest"
                          THEN Append(acc.quests, DotLine("node", dot_repr(node), NoLabel))
                          ELSE acc.quests,
                          IF node.kind = "Skill"
                          THEN Append(acc.skills, DotLine("node", dot_repr(node), NoLabel))
                          ELSE acc.skills,
                          Append(acc.paths,
                                 DotLine("edge", dot_repr(node),
                                         dot_repr(store[node.parent])))))

build_dot_repr(store, requirements) ==
    IF store[requirements].kind = "Empty" THEN Dot("AttributeError", <<>>)
    ELSE IF store[requirements].deps = <<>>
    THEN Dot("", <<DotLine("label", dot_repr(store[requirements]), NoLabel)>>)
    ELSE LET first == DotLine("node", dot_repr(store[requirements]), NoLabel)
             acc == DotLoop(store, store[requirements].deps,
                            DotAcc("", <<first>>, <<>>, <<>>))
         IN IF acc.err # "" THEN Dot(acc.err, <<>>)
            ELSE Dot("",
                     <<DotLine("digraph", NoLabel, NoLabel),
                       DotLine("style-quest", NoLabel, NoLabel)>>
                     \o acc.quests
                     \o (IF acc.skills # <<>>
                         THEN <<DotLine("style-skill", NoLabel, NoLabel)>> \o acc.skills
                         ELSE <<>>)
                     \o <<DotLine("style-plain", NoLabel, NoLabel)>>
                     \o acc.paths
                     \o <<DotLine("close", NoLabel, NoLabel)>>)

\* ------------------------------------------------------------ call frames
\* One active get_quest_requirements_and_merge call and, once the page is
\* read, the parse_requirements call it makes.  `i` is the next line of the
\* text, `pending` the rest of sorted(quests_to_fetch); `created` records,
\* for each node the parse made, the line and level it made it for.
Frame(quest_name) ==
    [quest_name |-> quest_name, pc |-> "fetch", root_requirement |-> None, i |-> 1,
     requirement |-> None, last_req |-> None, last_level |-> 0,
     quests_to_fetch |-> {}, pending |-> <<>>, created |-> <<>>]

Top == stack[Len(stack)]
Base == 1

Page(kind, lines) == [kind |-> kind, lines |-> lines]
NoReqPage == Page("noreq", <<>>)

\* The callee returned: the caller runs fetched_quests.add(quest) and moves
\* on in its loop; with no caller, get_quest_requirements prints the graph.
ReturnTo(store, callers, fetched, value) ==
    IF callers = <<>>
    THEN LET d == build_dot_repr(store, value)
         IN /\ stack' = <<>>
            /\ fetched_quests' = fetched
            /\ result' = value
            /\ dot' = d
            /\ status' = IF d.err # "" THEN d.err ELSE "done"
    ELSE LET c == callers[Len(callers)]
         IN /\ stack' = [callers EXCEPT ![Len(callers)].pending = Tail(c.pending)]
            /\ fetched_quests' = fetched \cup {Head(c.pending)}
            /\ UNCHANGED <<result, dot, status>>

\* get_quest_requirements_and_merge up to the call of parse_requirements,
\* and the first lines of parse_requirements (find_quest).
Fetch ==
    /\ status = "running" /\ stack # <<>> /\ Top.pc = "fetch"
    /\ LET q == Top.quest_name
           page == db[q]
           callers == SubSeq(stack, 1, Len(stack) - 1)
       IN /\ fetchCount' = [fetchCount EXCEPT ![q] = @ + 1]
          /\ CASE page.kind = "none" ->
                    /\ status' = "DetailsNotFoundError"
                    /\ UNCHANGED <<nodes, fetched_quests, stack, result, dot>>
               [] page.kind = "many" ->
                    /\ status' = "TooManyDetailsFoundError"
                    /\ UNCHANGED <<nodes, fetched_quests, stack, result, dot>>
               [] page.kind = "noreq" ->
                    /\ nodes' = Append(nodes, QuestRequirement(q))
                    /\ ReturnTo(nodes', callers, fetched_quests \cup {q}, Len(nodes'))
               [] OTHER ->
                    LET found == find_quest(nodes, Base, q)
                        root_requirement == IF found = None THEN Base ELSE found
                    IN /\ stack' = [stack EXCEPT ![Len(stack)] =
                                      [@ EXCEPT !.pc = "lines",
                                                !.root_requirement = root_requirement,
                                                !.requirement = root_requirement]]
                       /\ UNCHANGED <<nodes, fetched_quests, status, result, dot>>
    /\ UNCHANGED db

\* One turn of the loop over the lines of the text.
ParseLine ==
    /\ status = "running" /\ stack # <<>> /\ Top.pc = "lines"
    /\ LET f == Top
           lines == db[f.quest_name].lines
           line == lines[f.i]
           current_level == CurrentLevel(line)
           lv == LevelStep(nodes, f, current_level)
           moved == [f EXCEPT !.requirement = lv.requirement,
                              !.last_level = lv.last_level]
       IN IF lv.err # ""
          THEN /\ status' = lv.err
               /\ stack' = [stack EXCEPT ![Len(stack)] = moved]
               /\ UNCHANGED nodes
          ELSE LET a == Classify(nodes, lv.requirement, line, fetched_quests,
                                 f.last_req, f.quests_to_fetch)
                   made == [k \in 1..Len(a.new) |->
                              [node |-> a.new[k], level |-> current_level, line |-> f.i]]
                   last == f.i = Len(lines)
               IN IF a.err # ""
                  THEN /\ status' = a.err
                       /\ stack' = [stack EXCEPT ![Len(stack)] = moved]
                       /\ UNCHANGED nodes
                  ELSE /\ status' = status
                       /\ nodes' = a.store
                       /\ stack' = [stack EXCEPT ![Len(stack)] =
                             [moved EXCEPT !.last_req = a.last_req,
                                           !.quests_to_fetch = a.to_fetch,
                                           !.created = @ \o made,
                                           !.i = @ + 1,
                                           !.pc = IF last THEN "loop" ELSE "lines",
                                           !.pending = IF last THEN Sorted(a.to_fetch)
                                                       ELSE <<>>]]
    /\ UNCHANGED <<db, fetched_quests, result, dot, fetchCount>>

\* for quest in sorted(quests_to_fetch): the recursive call.
CallNext ==
    /\ status = "running" /\ stack # <<>> /\ Top.pc = "loop" /\ Top.pending # <<>>
    /\ IF Len(stack) >= MaxDepth
       THEN status' = "RecursionError" /\ UNCHANGED stack
       ELSE status' = status /\ stack' = Append(stack, Frame(Head(Top.pending)))
    /\ UNCHANGED <<db, nodes, fetched_quests, result, dot, fetchCount>>

\* return remove_empty_requirements(root_requirement)
Return ==
    /\ status = "running" /\ stack # <<>> /\ Top.pc = "loop" /\ Top.pending = <<>>
    /\ nodes' = remove_empty_requirements(nodes, Top.root_requirement)
    /\ ReturnTo(nodes', SubSeq(stack, 1, Len(stack) - 1), fetched_quests,
                Top.root_requirement)
    /\ UNCHANGED <<db, fetchCount>>

Next == Fetch \/ ParseLine \/ CallNext \/ Return

\* ------------------------------------------------------------------ inputs
\* Lines of the fetch-and-merge inputs: a link to each quest, a line without
\* markup, and one level down a link and a line without markup.
MergeLines ==
    {LinkLine(1, <<q>>, q) : q \in Quests}
      \cup {TextLine(1), TextLine(2), LinkLine(2, <<"D">>, "D")}

\* The pages whose requirement text has n lines; with no line, the pages
\* without a requirement text: no "Quest details" template, several of them,
\* one without a requirements field.
MergePages(n) ==
    IF n = 0 THEN {Page("none", <<>>), Page("many", <<>>), NoReqPage}
    ELSE {Page("text", l) : l \in [1..n -> MergeLines]}

\* Lines of the parser inputs: at every level a link to a quest, at the first
\* two levels a skill line the parser cannot read, at level 0 the other shapes.
ParseLines ==
    {LinkLine(s, <<"D">>, "D") : s \in 1..MaxStars}
      \cup {SkillLine(s, "SkillInlineBad") : s \in 1..2}
      \cup {SkillLine(1, k) : k \in {"SkillTemplate", "SkillTemplateBad", "SkillInline"}}
      \cup {TextLine(1),
            LinkLine(1, <<OtherTarget, "D", "D">>, "Other D D"),
            LinkLine(1, <<OtherTarget>>, OtherTarget)}

InitRun ==
    /\ nodes = <<QuestRequirement(TopQuest)>>
    /\ fetched_quests = {}
    /\ stack = <<Frame(TopQuest)>>
    /\ status = "running"
    /\ result = None
    /\ dot = NoDot
    /\ fetchCount = [q \in Quests |-> 0]

\* get_quest_requirements(db, TopQuest) over every assignment of pages to the
\* quests with at most MaxWikiLines lines of requirement text in all.
Init ==
    /\ \E n1, n2, n3 \in 0..MaxWikiLines :
         /\ n1 + n2 + n3 <= MaxWikiLines
         /\ \E p1 \in MergePages(n1) : \E p2 \in MergePages(n2) :
              \E p3 \in MergePages(n3) :
                db = [q \in Quests |->
                        IF q = QuestOrder[1] THEN p1
                        ELSE IF q = QuestOrder[2] THEN p2 ELSE p3]
    /\ InitRun

Spec == Init /\ [][Next]_vars

\* The parser on one text, anchored below the root: the top quest links to B,
\* the text is B's, and the quest the text links to has no requirements.
InitParse ==
    /\ \E k \in 1..MaxParseLines : \E l \in [1..k -> ParseLines] :
         db = [q \in Quests |->
                 IF q = TopQuest THEN Page("text", <<LinkLine(1, <<"B">>, "B")>>)
                 ELSE IF q = "B" THEN Page("text", l) ELSE NoReqPage]
    /\ InitRun

SpecParse == InitParse /\ [][Next]_vars

\* ------------------------------------------- the cleanup and the serializer
\* What a node of an input tree can be.  The free text "A" has the label of
\* the quest "A".
TreeContents ==
    {EmptyRequirement, QuestRequirement("A"), SkillRequirement("Attack", 40),
     UnknownRequirement("A")}

\* Children of node i, in list order, where parent[j] is the parent of j.
ChildrenOf(parents, i) ==
    SelectSeq([j \in 1..Len(parents) |-> j], LAMBDA j : parents[j] = i)

\* Every ordered tree of at most MaxTreeNodes nodes, node 1 the root, built
\* as add_dependency builds it: a child is created after its parent.
Trees ==
    UNION {
      {[i \in 1..n |-> [c[i] EXCEPT !.parent = par[i], !.deps = ChildrenOf(par, i)]] :
         c \in [1..n -> TreeContents],
         par \in {pp \in [1..n -> 0..n] :
                    pp[1] = 0 /\ \A i \in 2..n : pp[i] >= 1 /\ pp[i] < i}} :
      n \in 1..MaxTreeNodes}

InitTree ==
    /\ nodes \in Trees
    /\ db = [q \in Quests |-> NoReqPage]
    /\ fetched_quests = {}
    /\ stack = <<>>
    /\ status = "tree"
    /\ result = None
    /\ dot = NoDot
    /\ fetchCount = [q \in Quests |-> 0]

\* remove_empty_requirements(root), once and once more.
RemoveEmptyOp ==
    /\ status \in {"tree", "cleaned"}
    /\ nodes' = remove_empty_requirements(nodes, Base)
    /\ status' = IF status = "tree" THEN "cleaned" ELSE "cleaned2"
    /\ result' = Base
    /\ UNCHANGED <<db, fetched_quests, stack, dot, fetchCount>>

\* build_dot_repr(root)
BuildDotOp ==
    /\ status \in {"tree", "cleaned", "cleaned2"}
    /\ dot' = build_dot_repr(nodes, Base)
    /\ status' = IF dot'.err # "" THEN dot'.err ELSE "printed"
    /\ result' = Base
    /\ UNCHANGED <<db, nodes, fetched_quests, stack, fetchCount>>

NextTree == RemoveEmptyOp \/ BuildDotOp

SpecTree == InitTree /\ [][NextTree]_vars

\* ------------------------------------------------------ reading the arena
Range(f) == {f[i] : i \in DOMAIN f}

\* Times x occurs in the list s.
Occurrences(s, x) == Cardinality({i \in DOMAIN s : s[i] = x})

RECURSIVE Reach(_, _, _)
Reach(store, frontier, seen) ==
    IF frontier = {} THEN seen
    ELSE LET new == UNION {Range(store[n].deps) : n \in frontier} \ seen
         IN Reach(store, new, seen \cup new)

\* The nodes below r: what r's dependency lists lead to.
Descendants(store, r) == Reach(store, {r}, {})

\* Names of the QuestRequirement nodes below r.
QuestNamesBelow(store, r) ==
    {store[n].name : n \in {d \in Descendants(store, r) : store[d].kind = "Quest"}}

\* Parent links from n up to `anchor`; -1 when the chain ends elsewhere.
RECURSIVE DepthBelow(_, _, _, _)
DepthBelow(store, anchor, n, fuel) ==
    IF n = anchor THEN 0
    ELSE IF n = None \/ fuel = 0 THEN -1
    ELSE LET d == DepthBelow(store, anchor, store[n].parent, fuel - 1)
         IN IF d < 0 THEN -1 ELSE d + 1

\* The structure below root is a tree: the root has no parent, no node is
\* below itself, every entry of a dependency list names a node whose parent
\* is the owner of the list, and every node below the root is exactly once
\* in its parent's list.
IsTree(store, root) ==
    LET D == Descendants(store, root)
    IN /\ store[root].parent = None
       /\ root \notin D
       /\ \A n \in D : n \notin Descendants(store, n)
       /\ \A m \in D \cup {root} : \A i \in DOMAIN store[m].deps :
            store[store[m].deps[i]].parent = m
       /\ \A n \in D : Occurrences(store[store[n].parent].deps, n) = 1

\* A cleanup detached an empty node whose child was an empty node with a
\* child of its own: a chain of nested empty nodes was removed.
RemovedChain ==
    \E e1 \in DOMAIN nodes : \E e2 \in Range(nodes[e1].deps) :
        /\ e1 # Base /\ nodes[e1].kind = "Empty" /\ nodes[e1].parent = None
        /\ nodes[e2].kind = "Empty" /\ nodes[e2].parent = None
        /\ nodes[e2].deps # <<>>

\* The nearest ancestor of n that a cleanup keeps: the first that is not
\* empty, the root when there is none.
RECURSIVE NearestKept(_, _, _)
NearestKept(store, root, n) ==
    LET p == store[n].parent
    IN IF p = root \/ store[p].kind # "Empty" THEN p
       ELSE NearestKept(store, root, p)

\* What a cleanup of `before` at `root` must leave in `after`.
CleanupRelation(before, after, root) ==
    LET kept == {n \in Descendants(before, root) : before[n].kind # "Empty"}
    IN /\ Len(after) = Len(before)
       /\ after[root].kind = before[root].kind
       /\ after[root].parent = before[root].parent
       /\ Descendants(after, root) = kept
       /\ \A n \in kept :
            /\ after[n].kind = before[n].kind /\ after[n].name = before[n].name
            /\ after[n].parent = NearestKept(before, root, n)
            /\ \A m \in kept \cup {root} :
                 Occurrences(after[m].deps, n) = IF m = after[n].parent THEN 1 ELSE 0

\* Well-formed indentation: the first line at level 0, no line more than one
\* level below the line before.
WellFormed(lines) ==
    /\ CurrentLevel(lines[1]) = 0
    /\ \A i \in 2..Len(lines) : CurrentLevel(lines[i]) <= CurrentLevel(lines[i - 1]) + 1

\* Every parse under way has its insertion point at or below its anchor (or
\* None) and has made its nodes below its anchor.
BelowAnchor(stk, store) ==
    \A d \in DOMAIN stk :
        LET f == stk[d]
            below == Descendants(store, f.root_requirement)
        IN f.pc # "fetch" =>
             /\ f.requirement \in below \cup {f.root_requirement, None}
             /\ \A k \in DOMAIN f.created : f.created[k].node \in below

\* The child indexes that lead from root to n.
RECURSIVE PathTo(_, _, _)
PathTo(store, root, n) ==
    IF n = root THEN <<>>
    ELSE LET p == store[n].parent
             k == CHOOSE i \in DOMAIN store[p].deps : store[p].deps[i] = n
         IN Append(PathTo(store, root, p), k)

\* Lexicographic order of two paths of one length.
RECURSIVE PathLess(_, _)
PathLess(a, b) ==
    IF a = <<>> THEN FALSE
    ELSE Head(a) < Head(b) \/ (Head(a) = Head(b) /\ PathLess(Tail(a), Tail(b)))

\* n comes before m level by level, left to right.
LevelOrderBefore(store, root, n, m) ==
    LET a == PathTo(store, root, n)
        b == PathTo(store, root, m)
    IN Len(a) < Len(b) \/ (Len(a) = Len(b) /\ PathLess(a, b))

EdgeLines == SelectSeq(dot.lines, LAMBDA l : l.t = "edge")

\* ------------------------------------------------------------------ claims

\* C1: a top-level fetch-and-merge always terminates, also when a quest links
\* to itself or quests link in a cycle: the recursion never runs on until the
\* interpreter's recursion limit stops it.
C1_Terminates == status # "RecursionError"

\* C2: a quest is fetched only if its name is not in the visited-set at the
\* moment the fetch is made, so each name is fetched at most once.
C2_FetchOnlyUnvisited ==
    [][\A q \in Quests : fetchCount'[q] > fetchCount[q] => q \notin fetched_quests]_vars

\* C3 as claimed: when the top-level fetch-and-merge completes, the
\* visited-set is exactly the set of names of the QuestRequirement nodes below
\* the root of the final tree.
C3_VisitedIsNamesBelowRoot ==
    status = "done" => fetched_quests = QuestNamesBelow(nodes, result)

\* C3 as amended: when the top-level fetch-and-merge completes, the
\* visited-set is the set of names of the QuestRequirement nodes below the
\* root of the final tree, together with the top quest's own name when its
\* page has no requirements field.
C3_VisitedIsNamesBelowRootOrBareTop ==
    status = "done" =>
        fetched_quests = QuestNamesBelow(nodes, result)
                           \cup (IF db[TopQuest].kind = "noreq" THEN {TopQuest} ELSE {})

C3_Witness ==
    /\ status = "done" /\ db[TopQuest].kind = "text"
    /\ Cardinality(fetched_quests) >= 2
    /\ \E n \in Descendants(nodes, result) :
         nodes[n].kind = "Quest" /\ nodes[n].parent # result

\* C4: remove_empty_requirements(root) leaves the root in place, no
\* EmptyRequirement below it, every non-empty node that was below it still
\* below it exactly once, and each such node's parent is its nearest
\* non-empty ancestor of the input tree, the root when there is none.
C4_CleanupRemovesEmpties ==
    [][status = "tree" /\ status' = "cleaned" => CleanupRelation(nodes, nodes', Base)]_vars

C4_Witness == status = "cleaned" /\ RemovedChain

\* C5: after every operation on the tree the structure below the top-level
\* root is a tree: acyclic, every node below the root exactly once in the
\* dependency list of the node its parent field names and in no other, and
\* the root without a parent.
C5_TreeShape == IsTree(nodes, Base)

C5_Witness ==
    /\ status = "done"
    /\ \E q \in Quests \ {TopQuest} : fetchCount[q] >= 1 /\ db[q].kind = "text"
    /\ \E e \in DOMAIN nodes :
         nodes[e].kind = "Empty" /\ nodes[e].parent = None /\ nodes[e].deps # <<>>

\* C6: on well-formed indentation (first line at level 0, no line more than
\* one level below the line before), whatever the lines hold, a node made
\* for a line of level k lies k+1 edges below the anchor.
C6_DepthEqualsLevel ==
    (status = "running" /\ stack # <<>> /\ Top.pc = "lines"
       /\ WellFormed(db[Top.quest_name].lines))
    => \A k \in DOMAIN Top.created :
         DepthBelow(nodes, Top.root_requirement, Top.created[k].node, Len(nodes))
           = Top.created[k].level + 1

\* C7: parse_requirements raises TooManyAddedLevelsError exactly when a
\* line's level exceeds last_level by more than one, and then the line has
\* added nothing to the tree.
C7_TooManyLevels ==
    [][(status = "running" /\ stack # <<>> /\ Top.pc = "lines") =>
         LET line == db[Top.quest_name].lines[Top.i]
             raised == status' = "TooManyAddedLevelsError"
         IN /\ raised <=> (line.stars - 1) - Top.last_level > 1
            /\ raised => nodes' = nodes]_vars

C7_Witness ==
    /\ status = "TooManyAddedLevelsError"
    /\ Top.last_level = 1
    /\ db[Top.quest_name].lines[Top.i].stars - 1 = 3

\* C8: while parse_requirements reads the lines of a quest its insertion
\* point stays at or below the anchor and every node it makes is below the
\* anchor; NoRemainingParentsError is raised exactly when the line asks for
\* more ascent steps than the insertion point lies below the anchor.
C8_StaysBelowAnchor ==
    [][/\ BelowAnchor(stack', nodes')
       /\ (status = "running" /\ stack # <<>> /\ Top.pc = "lines") =>
            LET f == Top
                up == f.last_level - (db[f.quest_name].lines[f.i].stars - 1)
            IN status' = "NoRemainingParentsError" <=>
                 /\ up > 0 /\ f.requirement # None
                 /\ DepthBelow(nodes, f.root_requirement, f.requirement, Len(nodes)) < up
      ]_vars

C8_Witness ==
    /\ status = "NoRemainingParentsError"
    /\ Top.root_requirement # Base
    /\ Top.requirement = Top.root_requirement
    /\ Top.created # <<>>

\* C9: for a tree without EmptyRequirement nodes whose root has a child,
\* build_dot_repr writes one edge line per node below the root, from the
\* node's label to its parent's label, in breadth-first order from the
\* root's children, and none for the root.
C9_OneEdgePerNode ==
    LET D == Descendants(nodes, Base)
    IN (/\ status \in {"printed", "AttributeError"}
        /\ nodes[Base].deps # <<>>
        /\ \A n \in D \cup {Base} : nodes[n].kind # "Empty")
       => /\ status = "printed"
          /\ Len(EdgeLines) = Cardinality(D)
          /\ \A n \in D :
               LET at == 1 + Cardinality({m \in D : LevelOrderBefore(nodes, Base, m, n)})
               IN /\ EdgeLines[at].from = dot_repr(nodes[n])
                  /\ EdgeLines[at].to = dot_repr(nodes[nodes[n].parent])

C9_Witness ==
    /\ status = "printed"
    /\ Len(EdgeLines) >= 3
    /\ \E n \in Descendants(nodes, Base) :
         /\ nodes[n].parent # Base
         /\ \E m \in Range(nodes[Base].deps) : m > n

\* C10: remove_empty_requirements is idempotent: run on its own result it
\* changes no node, no parent and no dependency list.
C10_CleanupIdempotent ==
    [][status = "cleaned" /\ status' = "cleaned2" => nodes' = nodes]_vars

C10_Witness == status = "cleaned2" /\ RemovedChain

====
